---- MODULE Spec2Model ----
(***************************************************************************)
(* Model of the `seed fix` tool: src/seed/cmd.go (fix, readFile) and       *)
(* src/seed/walkthrough.go (walkthroughDir, processFiles, processFile).    *)
(*                                                                         *)
(* Strings are sequences of symbols.  File content is a sequence over      *)
(* Bytes; a file name is a sequence of name symbols; a path is a record    *)
(* [abs, segs] holding whether it starts with "/" and its "/"-separated    *)
(* elements, so that "", ".", "./t" and "/r/./t" are distinct values.      *)
(***************************************************************************)
EXTENDS Integers, Sequences, FiniteSets, TLC

\* ------------------------------------------------------------------ bounds
MaxFiles == 2
MaxTransf == 2

\* ------------------------------------------------------------ basic values
Bytes == {"a", "b"}
Empty == << >>

Range(s) == {s[k] : k \in 1..Len(s)}

\* The sequences of at most n distinct elements of S.
InjSeqs(S, n) ==
  UNION {{s \in [1..k -> S] : \A x, y \in 1..k : x # y => s[x] # s[y]} : k \in 0..n}

\* ------------------------------------------------------------------- paths
DOT == <<".">>
DOTDOT == <<"..">>

PathOf(isAbs, elems) == [abs |-> isAbs, segs |-> elems]
EmptyPath == PathOf(FALSE, << >>)

\* filepath.Clean on the elements: "." and "" dropped, ".." removes the element
\* before it (kept at the start of a relative path, dropped at the root).
RECURSIVE CleanSegs(_, _, _)
CleanSegs(isAbs, todo, acc) ==
  IF todo = << >> THEN acc
  ELSE LET h == Head(todo) IN
       IF h = DOT \/ h = << >> THEN CleanSegs(isAbs, Tail(todo), acc)
       ELSE IF h = DOTDOT
            THEN IF acc # << >> /\ acc[Len(acc)] # DOTDOT
                 THEN CleanSegs(isAbs, Tail(todo), SubSeq(acc, 1, Len(acc) - 1))
                 ELSE IF isAbs THEN CleanSegs(isAbs, Tail(todo), acc)
                      ELSE CleanSegs(isAbs, Tail(todo), Append(acc, h))
            ELSE CleanSegs(isAbs, Tail(todo), Append(acc, h))

\* filepath.Clean: the empty string and a relative path that cleans to
\* nothing both become ".".
Clean(p) ==
  LET c == CleanSegs(p.abs, p.segs, << >>) IN
  IF ~p.abs /\ c = << >> THEN PathOf(FALSE, <<DOT>>) ELSE PathOf(p.abs, c)

\* filepath.Join(dir, name): empty elements are ignored, the rest is
\* joined with "/" and cleaned.
Join(dir, name) ==
  IF dir = EmptyPath THEN Clean(PathOf(FALSE, <<name>>))
  ELSE Clean(PathOf(dir.abs, Append(dir.segs, name)))

\* filepath.Base: the last element.
Base(p) == IF p.segs = << >> THEN DOT ELSE p.segs[Len(p.segs)]

\* The path as one string: its elements separated by "/".
RECURSIVE JoinSegs(_)
JoinSegs(segs) ==
  IF segs = << >> THEN << >>
  ELSE IF Len(segs) = 1 THEN segs[1]
       ELSE segs[1] \o <<"/">> \o JoinSegs(Tail(segs))

Flatten(p) == (IF p.abs THEN <<"/">> ELSE << >>) \o JoinSegs(p.segs)

\* strings.LastIndex(s, c), counted from 0; -1 when c is not in s.
LastIndex(s, c) ==
  IF \E k \in 1..Len(s) : s[k] = c
  THEN (CHOOSE k \in 1..Len(s) : s[k] = c /\ \A j \in (k + 1)..Len(s) : s[j] # c) - 1
  ELSE -1

\* strings.ToLower, symbol by symbol.
LowerSym(c) ==
  CASE c = "YML" -> "yml"
    [] c = "TOML" -> "toml"
    [] OTHER -> c

ToLower(s) == [k \in 1..Len(s) |-> LowerSym(s[k])]

\* strings.HasPrefix(s, "http://") || strings.HasPrefix(s, "https://")
IsURL(p) ==
  /\ ~p.abs
  /\ Len(p.segs) >= 2
  /\ p.segs[1] \in {<<"http:">>, <<"https:">>}
  /\ p.segs[2] = << >>

\* ------------------------------------------------- transformation engine
\* Glob match of a pattern against a name, "*" matching any run of symbols.
RECURSIVE GlobMatch(_, _)
GlobMatch(pat, s) ==
  IF pat = << >> THEN s = << >>
  ELSE IF Head(pat) = "*"
       THEN GlobMatch(Tail(pat), s) \/ (s # << >> /\ GlobMatch(pat, Tail(s)))
       ELSE s # << >> /\ Head(s) = Head(pat) /\ GlobMatch(Tail(pat), Tail(s))

\* The filter string split at "|" into its patterns.
RECURSIVE SplitFilter(_, _)
SplitFilter(f, cur) ==
  IF f = << >> THEN <<cur>>
  ELSE IF Head(f) = "|" THEN <<cur>> \o SplitFilter(Tail(f), << >>)
       ELSE SplitFilter(Tail(f), Append(cur, Head(f)))

\* Matcher: the base name matches one include pattern (or there is none)
\* and no exclude pattern; an exclude pattern is written with a leading "!".
checkFileName(filePath, transf) ==
  LET pats == {q \in Range(SplitFilter(transf.Filter, << >>)) : q # << >>}
      incl == {q \in pats : Head(q) # "!"}
      excl == {Tail(q) : q \in {r \in pats : Head(r) = "!"}}
      name == Base(filePath)
  IN  /\ (incl = {} \/ \E q \in incl : GlobMatch(q, name))
      /\ \A q \in excl : ~GlobMatch(q, name)

\* Registry of the named content predicates; an unknown name does not hold.
Precondition(name, content) ==
  CASE name = "AlwaysTrue" -> TRUE
    [] name = "ContainsA" -> \E k \in 1..Len(content) : content[k] = "a"
    [] name = "ContainsB" -> \E k \in 1..Len(content) : content[k] = "b"
    [] OTHER -> FALSE

\* Precondition evaluator: every named precondition holds on the content.
checkCondition(filePath, content, transf) ==
  \A k \in 1..Len(transf.Pre) : Precondition(transf.Pre[k], content)

\* bytes.Replace with an empty old: new before every byte and at the end.
RECURSIVE Interleave(_, _)
Interleave(s, new) ==
  IF s = << >> THEN new ELSE new \o <<Head(s)>> \o Interleave(Tail(s), new)

\* Replace: every non-overlapping occurrence, left to right, one pass.
RECURSIVE Replace(_, _, _)
Replace(s, old, new) ==
  IF old = << >> THEN Interleave(s, new)
  ELSE IF Len(s) < Len(old) THEN s
       ELSE IF SubSeq(s, 1, Len(old)) = old
            THEN new \o Replace(SubSeq(s, Len(old) + 1, Len(s)), old, new)
            ELSE <<Head(s)>> \o Replace(Tail(s), old, new)

\* One procedure; a name the registry does not know leaves the content.
applyProc(content, proc) ==
  IF proc.Name = "Replace" /\ Len(proc.Params) >= 2
  THEN Replace(content, proc.Params[1], proc.Params[2])
  ELSE content

\* The procedures of one transformation, in declared order.
RECURSIVE applyProcsFrom(_, _, _)
applyProcsFrom(content, procs, k) ==
  IF k > Len(procs) THEN content
  ELSE applyProcsFrom(applyProc(content, procs[k]), procs, k + 1)

applyProcs(content, transf) == applyProcsFrom(content, transf.Proc, 1)

\* ---------------------------------------------------------------- inputs
Procedure(name, params) == [Name |-> name, Params |-> params]
Transformation(filter, pre, proc) == [Filter |-> filter, Pre |-> pre, Proc |-> proc]

GoFilter == <<"*", ".", "go">>

\* The transformations a description file of the model may list.
Catalogue ==
  { Transformation(GoFilter, <<"AlwaysTrue", "ContainsA">>,
                   <<Procedure("Replace", <<(<<"a">>), <<"b">>>>)>>),
    Transformation(<< >>, <<"ContainsB">>, <<Procedure("Replace", <<(<<"b">>), << >>>>)>>),
    Transformation(GoFilter, << >>, <<Procedure("Replace", <<(<< >>), <<"b">>>>)>>) }

\* The transformation lists of the model's description files: at most
\* MaxTransf transformations of the catalogue, each listed once, in any order.
TransformationLists == InjSeqs(Catalogue, MaxTransf)

Root == PathOf(TRUE, <<(<<"r">>)>>)

\* The files below the model's root, in the order ioutil.ReadDir lists them.
WalkedPaths ==
  << Join(Root, <<"x", ".", "go">>),
     Join(Root, <<"y", ".", "go">>),
     Join(Root, <<"z", ".", "md">>) >>

\* The elements of s at the positions of S, in the order of s.
RECURSIVE Pick(_, _)
Pick(s, S) ==
  IF S = {} THEN << >>
  ELSE LET m == CHOOSE x \in S : \A y \in S : x <= y
       IN  <<s[m]>> \o Pick(s, S \ {m})

\* The file lists a walk can return: in directory order, without repetition.
FileLists ==
  {Pick(WalkedPaths, S) : S \in {T \in SUBSET (1..Len(WalkedPaths)) : Cardinality(T) <= MaxFiles}}

Contents == {Empty, <<"a">>}

\* ------------------------------------------------------------ file system
MaxDepth == 2

NameA == <<"a", ".", "go">>
NameD == <<"d">>
NameT == <<"t", ".", "yml">>

\* The names of the model in the order ioutil.ReadDir sorts them.
NameOrder == <<NameA, NameD, NameT>>

\* The trees below one directory, as sets of <<elements, kind>>: the files
\* a.go and t.yml, and the directory d, readable or not, down to depth k.
RECURSIVE DirTrees(_)
DirTrees(k) ==
  LET fileSets == SUBSET {<<(<<NameA>>), "file">>, <<(<<NameT>>), "file">>}
      subs == IF k = 0 THEN {{}}
              ELSE {{}} \cup
                   { {<<(<<NameD>>), kd>>} \cup {<<(<<NameD>>) \o e[1], e[2]>> : e \in t} :
                       kd \in {"dir", "unreadable"}, t \in DirTrees(k - 1) }
  IN  {f \cup sb : f \in fileSets, sb \in subs}

\* The file systems of the model: the root, readable or not, and a tree.
FileSystems ==
  { {<<Root.segs, kd>>} \cup {<<Root.segs \o e[1], e[2]>> : e \in t} :
      kd \in {"dir", "unreadable"}, t \in DirTrees(MaxDepth) }

\* "http://h/t.yml"
RemoteFlag == PathOf(FALSE, <<(<<"http:">>), << >>, <<"h">>, NameT>>)

\* The values of the flag -t: "./t.yml", "t.yml", "/r/t.yml", "/r/./t.yml",
\* "d/t.yml", "./t" and the URL.
TransPathFlags ==
  { PathOf(FALSE, <<DOT, NameT>>),
    PathOf(FALSE, <<NameT>>),
    PathOf(TRUE, <<(<<"r">>), NameT>>),
    PathOf(TRUE, <<(<<"r">>), DOT, NameT>>),
    PathOf(FALSE, <<NameD, NameT>>),
    PathOf(FALSE, <<DOT, <<"t">>>>),
    RemoteFlag }

\* The values of flag.Arg(1): "", "/r" and "d".
DirArgs == {EmptyPath, Root, PathOf(FALSE, <<NameD>>)}

\* The values of Exclude: "" and "d".
Excludes == {<< >>, NameD}

\* "./", the initial dirPath
DefaultDir == PathOf(FALSE, <<DOT, << >>>>)

\* ----------------------------------------------------------------- state
VARIABLES
  files,            \* processFiles: the file list
  transformations,  \* processFiles: the transformation list
  disk,             \* content of every file of the list
  first,            \* processFiles: first (shared by the workers)
  done,             \* number of signals buffered in the done channel
  dpc,              \* processFiles: position of the driver
  spawned,          \* number of goroutines started
  received,         \* number of signals the driver has received
  wpc,              \* position of each worker
  origDat,          \* processFile / worker: origDat
  data,             \* processFile / worker: data
  reads,            \* number of ioutil.ReadFile calls of each worker
  firstDat,         \* what the first ioutil.ReadFile of each worker gave
  sent,             \* number of completion signals each worker has sent
  writeCalls,       \* number of ioutil.WriteFile calls of each worker
  written,          \* paths whose content was replaced on disk
  headers,          \* number of "Apply transformations:" lines printed
  printed,          \* paths printed by line 50
  readErrs,         \* paths printed by "Error reading file"
  writeErrs,        \* paths printed by "Error writting file"
  disk0,            \* content of every file of the list when the run starts
  count,            \* fix: count, the results processFiles returned
  kept,             \* processFile: no unapplied transformation changed data
  walkErrs,         \* directories the walk printed an error for
  fs,               \* the directory tree: <<elements, kind>> of every entry
  cwd,              \* the working directory of the process
  transPath,        \* cmd.go: transPath (flag -t)
  arg1,             \* flag.Arg(1): the directory to fix, or ""
  exclude,          \* the Exclude of the parsed description
  dirPath,          \* cmd.go: dirPath
  tdfPath,          \* fix: tdfPath
  fpc               \* position of fix

procVars == <<files, transformations, disk, first, done, dpc, spawned, received,
              wpc, origDat, data, reads, firstDat, sent, writeCalls,
              written, headers, printed, readErrs, writeErrs, disk0, count,
              kept>>

fixVars == <<fs, cwd, transPath, arg1, exclude, dirPath, tdfPath, fpc, walkErrs>>

vars == <<procVars, fixVars>>

Workers == 1..Len(files)

\* The channel made one slot short: make(chan string, len(files)-1).
DoneCapShort == Len(files) - 1

\* make(chan string, len(files))
DoneCap == Len(files)

\* The receive loop one iteration short.
JoinCountShort == Len(files) - 1

\* for _ = range files { <-done }
JoinCount == Len(files)

Init ==
  /\ files \in FileLists
  /\ transformations \in TransformationLists
  /\ disk \in [Range(files) -> Contents]
  /\ first = TRUE
  /\ done = 0
  /\ dpc = "spawn"
  /\ spawned = 0
  /\ received = 0
  /\ wpc = [w \in Workers |-> "idle"]
  /\ origDat = [w \in Workers |-> Empty]
  /\ data = [w \in Workers |-> Empty]
  /\ reads = [w \in Workers |-> 0]
  /\ firstDat = [w \in Workers |-> Empty]
  /\ sent = [w \in Workers |-> 0]
  /\ writeCalls = [w \in Workers |-> 0]
  /\ written = {}
  /\ headers = 0
  /\ printed = {}
  /\ readErrs = {}
  /\ writeErrs = {}
  /\ disk0 = disk
  /\ count = << >>
  /\ kept = [w \in Workers |-> TRUE]
  /\ walkErrs = {}
  /\ fs = {<<Root.segs, "dir">>} \cup {<<files[k].segs, "file">> : k \in 1..Len(files)}
  /\ cwd = Root
  /\ transPath = RemoteFlag
  /\ arg1 = Root
  /\ exclude = << >>
  /\ dirPath = Root
  /\ tdfPath = EmptyPath
  /\ fpc = "process"

\* ---------------------------------------------------------------- driver
\* go func(filePath string) {...}(f), once per file in list order
Spawn ==
  /\ dpc = "spawn"
  /\ spawned < Len(files)
  /\ spawned' = spawned + 1
  /\ wpc' = [wpc EXCEPT ![spawned + 1] = "processFile"]
  /\ UNCHANGED fixVars
  /\ UNCHANGED <<disk0, count, kept>>
  /\ UNCHANGED <<files, transformations, disk, first, done, dpc, received,
                 origDat, data, reads, firstDat, sent, writeCalls,
                 written, headers, printed, readErrs, writeErrs>>

\* the spawn loop ends and the receive loop begins
StartJoin ==
  /\ dpc = "spawn"
  /\ spawned = Len(files)
  /\ dpc' = "join"
  /\ UNCHANGED fixVars
  /\ UNCHANGED <<disk0, count, kept>>
  /\ UNCHANGED <<files, transformations, disk, first, done, spawned, received,
                 wpc, origDat, data, reads, firstDat, sent, writeCalls,
                 written, headers, printed, readErrs, writeErrs>>

\* <-done
Receive ==
  /\ dpc = "join"
  /\ received < JoinCount
  /\ done > 0
  /\ done' = done - 1
  /\ received' = received + 1
  /\ UNCHANGED fixVars
  /\ UNCHANGED <<disk0, count, kept>>
  /\ UNCHANGED <<files, transformations, disk, first, dpc, spawned,
                 wpc, origDat, data, reads, firstDat, sent, writeCalls,
                 written, headers, printed, readErrs, writeErrs>>

\* func processFiles(files []string, transformations []Transformation) has
\* no result list and no counter: what a call of it yields.
processFilesResult == << >>

\* fmt.Printf("Processed %v files\n", len(files)) and the return, which
\* cmd.go line 156 assigns to count.
Summary ==
  /\ dpc = "join"
  /\ received >= JoinCount
  /\ dpc' = "returned"
  /\ count' = processFilesResult
  /\ UNCHANGED fixVars
  /\ UNCHANGED <<disk0, kept>>
  /\ UNCHANGED <<files, transformations, disk, first, done, spawned, received,
                 wpc, origDat, data, reads, firstDat, sent, writeCalls,
                 written, headers, printed, readErrs, writeErrs>>

\* ---------------------------------------------------------------- worker
\* The read placed before the test of the filter.
NeedReadEager(matches, orig) == Len(orig) = 0

\* if checkFileName(filePath, transf) { if len(origDat) == 0 {
\*   dat, err := ioutil.ReadFile(filePath) ... } }
NeedRead(matches, orig) == matches /\ Len(orig) = 0

\* One iteration of the loop of processFile on st, which holds origDat and
\* data, the number of reads so far, what the first read gave and whether a
\* read failed; dsk is the content of the files when the call runs and ok
\* tells whether a read in this iteration succeeds.  kept records that no
\* iteration after the first read, whose filter matched and whose
\* precondition held neither on the data it was given nor on the data it
\* tested, left data different from what it was given.
processFileStep(dsk, filePath, transf, ok, st) ==
  LET matches == checkFileName(filePath, transf)
      rd == NeedRead(matches, st.origDat)
      dat == IF ok THEN dsk[filePath] ELSE Empty
      data1 == IF rd THEN dat ELSE st.data
      holds == checkCondition(filePath, data1, transf)
      data2 == IF matches /\ holds THEN applyProcs(data1, transf) ELSE data1
  IN  [origDat |-> IF rd THEN dat ELSE st.origDat,
       data |-> data2,
       reads |-> IF rd THEN st.reads + 1 ELSE st.reads,
       firstDat |-> IF rd /\ st.reads = 0 THEN dat ELSE st.firstDat,
       failed |-> st.failed \/ (rd /\ ~ok),
       kept |-> st.kept /\ ((/\ matches
                              /\ st.reads > 0
                              /\ ~holds
                              /\ ~checkCondition(filePath, st.data, transf))
                               => data2 = st.data)]

\* The loop of processFile from transformation k on; the state after an
\* iteration is bound to s before the next iteration uses it.
RECURSIVE processFileFrom(_, _, _, _, _, _)
processFileFrom(dsk, filePath, transfs, oks, k, st) ==
  IF k > Len(transfs) THEN st
  ELSE CHOOSE r \in {processFileFrom(dsk, filePath, transfs, oks, k + 1, s) :
                       s \in {processFileStep(dsk, filePath, transfs[k], oks[k], st)}} : TRUE

\* processFile called while the files hold dsk.
processFileOn(dsk, filePath, transfs, oks) ==
  processFileFrom(dsk, filePath, transfs, oks, 1,
    [origDat |-> Empty, data |-> Empty, reads |-> 0, firstDat |-> Empty,
     failed |-> FALSE, kept |-> TRUE])

processFile(filePath, transfs, oks) == processFileOn(disk, filePath, transfs, oks)

\* What the n possible reads of one processFile call meet: a file that can
\* be read (every read succeeds) or one that cannot (every read fails).
ReadOutcomes(n) == {[k \in 1..n |-> readable] : readable \in BOOLEAN}

\* The change test on the final content alone.
ChangedNonEmpty(orig, dat) == Len(dat) # 0

\* if len(origDat) != len(data)
Changed(orig, dat) == Len(orig) # Len(dat)

\* processFile writing the buffer back to the file after the first
\* transformation of the list.
ProcessFileFlushing(w) ==
  /\ wpc[w] = "processFile"
  /\ \E oks \in ReadOutcomes(Len(transformations)) :
       \E r \in {processFile(files[w], transformations, oks)} :
         /\ origDat' = [origDat EXCEPT ![w] = r.origDat]
         /\ data' = [data EXCEPT ![w] = r.data]
         /\ reads' = [reads EXCEPT ![w] = r.reads]
         /\ firstDat' = [firstDat EXCEPT ![w] = r.firstDat]
         /\ readErrs' = IF r.failed THEN readErrs \cup {files[w]} ELSE readErrs
         /\ kept' = [kept EXCEPT ![w] = r.kept]
         /\ wpc' = [wpc EXCEPT ![w] = IF Changed(r.origDat, r.data) THEN "checkFirst" ELSE "send"]
         /\ disk' = IF Len(transformations) = 0 THEN disk
                    ELSE [disk EXCEPT ![files[w]] =
                            processFile(files[w], SubSeq(transformations, 1, 1), oks).data]
  /\ UNCHANGED fixVars
  /\ UNCHANGED <<disk0, count>>
  /\ UNCHANGED <<files, transformations, first, done, dpc, spawned,
                 received, sent, writeCalls, written, headers, printed,
                 writeErrs>>

\* origDat, data := processFile(filePath, transformations) and the change
\* test on what it returned.
ProcessFile(w) ==
  /\ wpc[w] = "processFile"
  /\ \E oks \in ReadOutcomes(Len(transformations)) :
       \E r \in {processFile(files[w], transformations, oks)} :
         /\ origDat' = [origDat EXCEPT ![w] = r.origDat]
         /\ data' = [data EXCEPT ![w] = r.data]
         /\ reads' = [reads EXCEPT ![w] = r.reads]
         /\ firstDat' = [firstDat EXCEPT ![w] = r.firstDat]
         /\ readErrs' = IF r.failed THEN readErrs \cup {files[w]} ELSE readErrs
         /\ kept' = [kept EXCEPT ![w] = r.kept]
         /\ wpc' = [wpc EXCEPT ![w] = IF Changed(r.origDat, r.data) THEN "checkFirst" ELSE "send"]
  /\ UNCHANGED fixVars
  /\ UNCHANGED <<disk0, count>>
  /\ UNCHANGED <<files, transformations, disk, first, done, dpc, spawned,
                 received, sent, writeCalls, written, headers, printed,
                 writeErrs>>

\* if first
CheckFirst(w) ==
  /\ wpc[w] = "checkFirst"
  /\ wpc' = [wpc EXCEPT ![w] = IF first THEN "header" ELSE "write"]
  /\ UNCHANGED fixVars
  /\ UNCHANGED <<disk0, count, kept>>
  /\ UNCHANGED <<files, transformations, disk, first, done, dpc, spawned,
                 received, origDat, data, reads, firstDat, sent,
                 writeCalls, written, headers, printed, readErrs, writeErrs>>

\* fmt.Println("Apply transformations:"); first = false
PrintHeader(w) ==
  /\ wpc[w] = "header"
  /\ headers' = headers + 1
  /\ first' = FALSE
  /\ wpc' = [wpc EXCEPT ![w] = "write"]
  /\ UNCHANGED fixVars
  /\ UNCHANGED <<disk0, count, kept>>
  /\ UNCHANGED <<files, transformations, disk, done, dpc, spawned,
                 received, origDat, data, reads, firstDat, sent,
                 writeCalls, written, printed, readErrs, writeErrs>>

\* A failed write ending the run at once, as log.Fatal would.
WriteFileFatal(w) ==
  /\ wpc[w] = "write"
  /\ \E ok \in BOOLEAN :
       /\ disk' = IF ok THEN [disk EXCEPT ![files[w]] = data[w]] ELSE disk
       /\ written' = IF ok THEN written \cup {files[w]} ELSE written
       /\ writeErrs' = IF ok THEN writeErrs ELSE writeErrs \cup {files[w]}
       /\ dpc' = IF ok THEN dpc ELSE "returned"
       /\ wpc' = [wpc EXCEPT ![w] = IF ok THEN "send" ELSE "write"]
  /\ writeCalls' = [writeCalls EXCEPT ![w] = @ + 1]
  /\ printed' = printed \cup {files[w]}
  /\ UNCHANGED fixVars
  /\ UNCHANGED <<disk0, count, kept>>
  /\ UNCHANGED <<files, transformations, first, done, spawned,
                 received, origDat, data, reads, firstDat, sent,
                 headers, readErrs>>

\* The closure using the loop variable f of the spawn loop instead of its
\* parameter: the write goes to the file the loop has reached.
WriteFileShared(w) ==
  /\ wpc[w] = "write"
  /\ \E ok \in BOOLEAN :
       /\ disk' = IF ok THEN [disk EXCEPT ![files[spawned]] = data[w]] ELSE disk
       /\ written' = IF ok THEN written \cup {files[spawned]} ELSE written
       /\ writeErrs' = IF ok THEN writeErrs ELSE writeErrs \cup {files[spawned]}
  /\ writeCalls' = [writeCalls EXCEPT ![w] = @ + 1]
  /\ printed' = printed \cup {files[spawned]}
  /\ wpc' = [wpc EXCEPT ![w] = "send"]
  /\ UNCHANGED fixVars
  /\ UNCHANGED <<disk0, count, kept>>
  /\ UNCHANGED <<files, transformations, first, done, dpc, spawned,
                 received, origDat, data, reads, firstDat, sent,
                 headers, readErrs>>

\* err := ioutil.WriteFile(filePath, data, 0644), the error line and the
\* path line; a failed write leaves the file as it was.
WriteFile(w) ==
  /\ wpc[w] = "write"
  /\ \E ok \in BOOLEAN :
       /\ disk' = IF ok THEN [disk EXCEPT ![files[w]] = data[w]] ELSE disk
       /\ written' = IF ok THEN written \cup {files[w]} ELSE written
       /\ writeErrs' = IF ok THEN writeErrs ELSE writeErrs \cup {files[w]}
  /\ writeCalls' = [writeCalls EXCEPT ![w] = @ + 1]
  /\ printed' = printed \cup {files[w]}
  /\ wpc' = [wpc EXCEPT ![w] = "send"]
  /\ UNCHANGED fixVars
  /\ UNCHANGED <<disk0, count, kept>>
  /\ UNCHANGED <<files, transformations, first, done, dpc, spawned,
                 received, origDat, data, reads, firstDat, sent,
                 headers, readErrs>>

\* The worker returning after a failed write without its signal.
SendDoneUnlessError(w) ==
  /\ wpc[w] = "send"
  /\ done < DoneCap
  /\ done' = IF files[w] \in writeErrs THEN done ELSE done + 1
  /\ sent' = [sent EXCEPT ![w] = IF files[w] \in writeErrs THEN @ ELSE @ + 1]
  /\ wpc' = [wpc EXCEPT ![w] = "done"]
  /\ UNCHANGED fixVars
  /\ UNCHANGED <<disk0, count, kept>>
  /\ UNCHANGED <<files, transformations, disk, first, dpc, spawned,
                 received, origDat, data, reads, firstDat,
                 writeCalls, written, headers, printed, readErrs, writeErrs>>

\* done <- "ok"
SendDone(w) ==
  /\ wpc[w] = "send"
  /\ done < DoneCap
  /\ done' = done + 1
  /\ sent' = [sent EXCEPT ![w] = @ + 1]
  /\ wpc' = [wpc EXCEPT ![w] = "done"]
  /\ UNCHANGED fixVars
  /\ UNCHANGED <<disk0, count, kept>>
  /\ UNCHANGED <<files, transformations, disk, first, dpc, spawned,
                 received, origDat, data, reads, firstDat,
                 writeCalls, written, headers, printed, readErrs, writeErrs>>

Worker(w) ==
  \/ ProcessFile(w)
  \/ CheckFirst(w)
  \/ PrintHeader(w)
  \/ WriteFile(w)
  \/ SendDone(w)

Driver == Spawn \/ StartJoin \/ Receive \/ Summary

Next ==
  \/ Spawn
  \/ StartJoin
  \/ Receive
  \/ Summary
  \/ \E w \in Workers : ProcessFile(w)
  \/ \E w \in Workers : CheckFirst(w)
  \/ \E w \in Workers : PrintHeader(w)
  \/ \E w \in Workers : WriteFile(w)
  \/ \E w \in Workers : SendDone(w)

Spec == Init /\ [][Next]_vars

\* The Go scheduler runs a runnable goroutine whenever there is one: the
\* program does not stop while the driver or a worker can take a step.
FairSpec == Spec /\ WF_vars(Next)


\* ------------------------------------------------ properties of the driver
\* processFile has returned in worker w.
Returned(w) == wpc[w] \in {"checkFirst", "header", "write", "send", "done"}

\* The worker is past the change test and the write it guards.
PastWrite(w) == wpc[w] \in {"send", "done"}

\* No transformation's filter matches the path.
NoMatch(filePath) ==
  \A k \in 1..Len(transformations) : ~checkFileName(filePath, transformations[k])

\* The left-to-right fold of the transformations from k on: each matching
\* transformation whose precondition holds on the content so far is applied.
RECURSIVE FoldFrom(_, _, _)
FoldFrom(filePath, content, k) ==
  IF k > Len(transformations) THEN content
  ELSE LET transf == transformations[k]
           applies == checkFileName(filePath, transf) /\ checkCondition(filePath, content, transf)
       IN  FoldFrom(filePath, IF applies THEN applyProcs(content, transf) ELSE content, k + 1)

\* C1: processFiles prints its summary and returns only after every spawned
\* worker has sent its completion signal, so that no worker is before or in
\* its file write when processFiles returns.
C1_ReturnAfterAllSignals ==
  dpc = "returned" => \A w \in Workers : sent[w] = 1 /\ wpc[w] = "done"

C1_Witness ==
  dpc = "returned" /\ Len(files) >= 2 /\ written # {}

\* C2: under fair scheduling processFiles eventually returns, having
\* received len(files) signals, one from every worker, also when a read or
\* a write failed.
C2_EventuallyReturns ==
  <>(dpc = "returned" /\ received = Len(files) /\ \A w \in Workers : sent[w] = 1)

C2_Witness ==
  dpc = "returned" /\ readErrs # {} /\ writeErrs # {} /\ Len(files) >= 2

\* C3: a file whose final content differs from its original content in any
\* byte, also at equal length, is written by the driver.
C3_DifferentContentIsWritten ==
  \A w \in Workers : PastWrite(w) /\ data[w] # origDat[w] => writeCalls[w] = 1

\* C4: whenever a worker writes a file, the content it writes differs from
\* the original content processFile returned for that file.
C4_WrittenOnlyIfChanged ==
  \A w \in Workers : writeCalls[w] > 0 => data[w] # origDat[w]

C4_Witness ==
  \E w \in Workers : writeCalls[w] = 1 /\ files[w] \in written

\* C5: the header "Apply transformations:" is never printed twice, and when
\* processFiles has returned it was printed exactly once if a file was
\* detected as changed and not at all otherwise.
C5_HeaderExactlyOnce ==
  /\ headers <= 1
  /\ dpc = "returned" =>
       (headers = 1 <=> \E w \in Workers : Changed(origDat[w], data[w]))

\* C6: the final content processFile returns is the left-to-right fold of
\* the transformations, each precondition evaluated on the content its
\* predecessors produced, starting from the content read from the file
\* (stated for the files whose reads all succeeded).
C6_FinalIsFold ==
  \A w \in Workers :
    Returned(w) /\ files[w] \notin readErrs =>
      data[w] = FoldFrom(files[w], firstDat[w], 1)

\* C7: one processFile call reads the file at most once.
C7_ReadAtMostOnce ==
  \A w \in Workers : reads[w] <= 1

\* C8: for a file no filter matches, processFile reads nothing and returns
\* empty original and final content, and the driver does not write it.
C8_UnmatchedUntouched ==
  \A w \in Workers :
    NoMatch(files[w]) =>
      /\ reads[w] = 0
      /\ origDat[w] = Empty
      /\ data[w] = Empty
      /\ writeCalls[w] = 0
      /\ files[w] \notin written
      /\ files[w] \notin printed

C8_Witness ==
  \E w \in Workers :
    /\ NoMatch(files[w])
    /\ wpc[w] = "done"
    /\ Len(transformations) >= 1
    /\ disk[files[w]] # Empty

\* ------------------------------------------------------------------- fix
\* The kind of the entry at the absolute elements: file, dir, unreadable, none.
Kind(segs) ==
  IF \E e \in fs : e[1] = segs THEN (CHOOSE e \in fs : e[1] = segs)[2] ELSE "none"

\* filepath.Abs: an absolute path cleaned, a relative one joined to the
\* working directory.
Abs(p) == IF p.abs THEN Clean(p) ELSE Clean(PathOf(TRUE, cwd.segs \o p.segs))

\* ioutil.ReadDir: the entries sorted by name; nothing when the directory
\* cannot be read.
ReadDir(dir) ==
  LET d == Abs(dir).segs
      present == SelectSeq(NameOrder, LAMBDA n : Kind(Append(d, n)) # "none")
  IN  IF Kind(d) # "dir" THEN << >>
      ELSE [k \in 1..Len(present) |->
              [name |-> present[k],
               isDir |-> Kind(Append(d, present[k])) \in {"dir", "unreadable"}]]

\* ioutil.ReadFile succeeds on a file.
CanReadFile(p) == Kind(Abs(p).segs) = "file"

\* The comparison of the two paths as they are written.
IsDescriptionRaw(fpath, tp) == fpath = tp

\* else if filepath.Clean(fpath) != filepath.Clean(transPath)
IsDescription(fpath, tp) == Clean(fpath) = Clean(tp)

RECURSIVE walkthroughDir(_, _)
RECURSIVE walkEntries(_, _, _, _)
\* The loop of walkthroughDir from entry k on.
walkEntries(tp, dir, entries, k) ==
  IF k > Len(entries) THEN << >>
  ELSE LET f == entries[k]
           fpath == Join(dir, f.name)
       IN  (IF f.isDir THEN walkthroughDir(tp, fpath)
            ELSE IF ~IsDescription(fpath, tp) THEN <<fpath>> ELSE << >>)
           \o walkEntries(tp, dir, entries, k + 1)

walkthroughDir(tp, dir) == walkEntries(tp, dir, ReadDir(dir), 1)

\* files, _ := ioutil.ReadDir(dirPath): the error is dropped, and no
\* statement of walkthroughDir prints; the directories a walk reports.
walkthroughDirReported(tp, dir) == {}

\* The walker fix calls: the walk without the entries that the exclude
\* pattern names, at any depth below the root.
walkDir(dir, excl, tp) ==
  LET c == Clean(dir)
      n == IF c.segs = <<DOT>> THEN 0 ELSE Len(c.segs)
      Kept(fp) == \A k \in (n + 1)..Len(fp.segs) : ~GlobMatch(excl, fp.segs[k])
  IN  IF excl = << >> THEN walkthroughDir(tp, dir)
      ELSE SelectSeq(walkthroughDir(tp, dir), Kept)

\* getFormat: the extension after the last "." of the name, in lower case.
getFormat(name) ==
  LET str == Flatten(name)
      index == LastIndex(str, ".") + 1
      extension == ToLower(SubSeq(str, index + 1, Len(str)))
  IN  CASE extension \in {<<"yml">>, <<"yaml">>} -> [ext |-> "yml", err |-> FALSE]
        [] extension = <<"toml">> -> [ext |-> "toml", err |-> FALSE]
        [] OTHER -> [ext |-> "", err |-> TRUE]

NotCalled == [w \in {} |-> 0]

FixInit ==
  /\ fs \in FileSystems
  /\ cwd \in {c \in {Root, Join(Root, NameD)} : Kind(c.segs) \in {"dir", "unreadable"}}
  /\ transPath \in TransPathFlags
  /\ arg1 \in DirArgs
  /\ exclude \in Excludes
  /\ dirPath = DefaultDir
  /\ tdfPath = EmptyPath
  /\ fpc = "start"
  /\ files = << >>
  /\ transformations = << >>
  /\ disk = << >>
  /\ first = TRUE
  /\ done = 0
  /\ dpc = "notcalled"
  /\ spawned = 0
  /\ received = 0
  /\ wpc = NotCalled
  /\ origDat = NotCalled
  /\ data = NotCalled
  /\ reads = NotCalled
  /\ firstDat = NotCalled
  /\ sent = NotCalled
  /\ writeCalls = NotCalled
  /\ written = {}
  /\ headers = 0
  /\ printed = {}
  /\ readErrs = {}
  /\ writeErrs = {}
  /\ disk0 = disk
  /\ count = << >>
  /\ kept = NotCalled
  /\ walkErrs = {}

\* fix, lines 130-134: fetchURL(transPath) or readFile(transPath).  readFile
\* keeps the absolute path in a tdfPath of its own; log.Fatal ends the run.
FixRead ==
  /\ fpc = "start"
  /\ \/ /\ IsURL(transPath)
        /\ \E ok \in BOOLEAN : fpc' = IF ok THEN "format" ELSE "fatal"
     \/ /\ ~IsURL(transPath)
        /\ fpc' = IF CanReadFile(Abs(transPath)) THEN "format" ELSE "fatal"
  /\ UNCHANGED <<fs, cwd, transPath, arg1, exclude, dirPath, tdfPath, walkErrs>>
  /\ UNCHANGED procVars

\* fix, lines 140-144: getFormat and parseTdf; the parsed description is
\* exclude and transformations.
FixFormat ==
  /\ fpc = "format"
  /\ \E ok \in BOOLEAN :
       fpc' = IF getFormat(transPath).err \/ ~ok THEN "fatal" ELSE "setDir"
  /\ UNCHANGED <<fs, cwd, transPath, arg1, exclude, dirPath, tdfPath, walkErrs>>
  /\ UNCHANGED procVars

\* fix, lines 147-153
FixSetDir ==
  /\ fpc = "setDir"
  /\ dirPath' = IF arg1 # EmptyPath THEN Abs(arg1) ELSE dirPath
  /\ fpc' = "walk"
  /\ UNCHANGED <<fs, cwd, transPath, arg1, exclude, tdfPath, walkErrs>>
  /\ UNCHANGED procVars

\* fix, line 155: files := walkDir(dirPath, transf.Exclude, tdfPath)
FixWalk ==
  /\ fpc = "walk"
  /\ files' = walkDir(dirPath, exclude, tdfPath)
  /\ walkErrs' = walkErrs \cup walkthroughDirReported(tdfPath, dirPath)
  /\ fpc' = "process"
  /\ UNCHANGED <<fs, cwd, transPath, arg1, exclude, dirPath, tdfPath>>
  /\ UNCHANGED <<disk0, count, kept>>
  /\ UNCHANGED <<transformations, disk, first, done, dpc, spawned, received,
                 wpc, origDat, data, reads, firstDat, sent, writeCalls,
                 written, headers, printed, readErrs, writeErrs>>

FixNext == FixRead \/ FixFormat \/ FixSetDir \/ FixWalk

FixSpec == FixInit /\ [][FixNext]_vars

\* ------------------------------------------------- walkthroughDir alone
\* The description paths given to walkthroughDir: "", "/r/t.yml",
\* "/r/./t.yml", "/r/d/../t.yml", "/r/d/t.yml", "t.yml" and "./d/t.yml".
DescriptionPaths ==
  { EmptyPath,
    PathOf(TRUE, <<(<<"r">>), NameT>>),
    PathOf(TRUE, <<(<<"r">>), DOT, NameT>>),
    PathOf(TRUE, <<(<<"r">>), NameD, DOTDOT, NameT>>),
    PathOf(TRUE, <<(<<"r">>), NameD, NameT>>),
    PathOf(FALSE, <<NameT>>),
    PathOf(FALSE, <<DOT, NameD, NameT>>) }

\* The directories given to walkthroughDir: "/r", "./", "/r/d" and "d".
WalkRoots == {Root, DefaultDir, Join(Root, NameD), PathOf(FALSE, <<NameD>>)}

WalkInit ==
  /\ fs \in FileSystems
  /\ cwd = Root
  /\ transPath = RemoteFlag
  /\ arg1 = EmptyPath
  /\ exclude = << >>
  /\ dirPath \in WalkRoots
  /\ tdfPath \in DescriptionPaths
  /\ fpc = "walkthroughDir"
  /\ files = << >>
  /\ transformations = << >>
  /\ disk = << >>
  /\ first = TRUE
  /\ done = 0
  /\ dpc = "notcalled"
  /\ spawned = 0
  /\ received = 0
  /\ wpc = NotCalled
  /\ origDat = NotCalled
  /\ data = NotCalled
  /\ reads = NotCalled
  /\ firstDat = NotCalled
  /\ sent = NotCalled
  /\ writeCalls = NotCalled
  /\ written = {}
  /\ headers = 0
  /\ printed = {}
  /\ readErrs = {}
  /\ writeErrs = {}
  /\ disk0 = disk
  /\ count = << >>
  /\ kept = NotCalled
  /\ walkErrs = {}

\* files := walkthroughDir(transPath, dirPath)
WalkthroughDirCall ==
  /\ fpc = "walkthroughDir"
  /\ files' = walkthroughDir(tdfPath, dirPath)
  /\ walkErrs' = walkErrs \cup walkthroughDirReported(tdfPath, dirPath)
  /\ fpc' = "walked"
  /\ UNCHANGED <<fs, cwd, transPath, arg1, exclude, dirPath, tdfPath>>
  /\ UNCHANGED <<disk0, count, kept>>
  /\ UNCHANGED <<transformations, disk, first, done, dpc, spawned, received,
                 wpc, origDat, data, reads, firstDat, sent, writeCalls,
                 written, headers, printed, readErrs, writeErrs>>

WalkNext == WalkthroughDirCall

WalkSpec == WalkInit /\ [][WalkNext]_vars

\* ------------------------------------------------ properties of the walk
\* s is a proper prefix of t.
IsBelow(t, s) == Len(t) > Len(s) /\ SubSeq(t, 1, Len(s)) = s

\* The path walkthroughDir builds for the entry at the absolute elements
\* segs below the directory dir.
WalkPath(dir, segs) ==
  Clean(PathOf(dir.abs, dir.segs \o SubSeq(segs, Len(Abs(dir).segs) + 1, Len(segs))))

\* The non-directory entries below dir, at any depth.
FilesBelow(dir) ==
  {e[1] : e \in {x \in fs : x[2] = "file" /\ IsBelow(x[1], Abs(dir).segs)}}

\* Every directory from dir down to the parent of the entry can be read.
Reachable(dir, segs) ==
  \A n \in Len(Abs(dir).segs)..(Len(segs) - 1) : Kind(SubSeq(segs, 1, n)) = "dir"

\* The list holds exactly the paths of S, each once.
HoldsExactly(list, S) == Range(list) = S /\ Len(list) = Cardinality(S)

\* C9: in a fix run with a local description file under the root directory
\* the walker is handed the absolute path of the description file, and the
\* description file is not in the list of files given to the driver.
C9_DescriptionExcluded ==
  (/\ fpc = "process"
   /\ ~IsURL(transPath)
   /\ IsBelow(Abs(transPath).segs, Abs(dirPath).segs))
  => /\ tdfPath = Abs(transPath)
     /\ \A k \in 1..Len(files) : Abs(files[k]) # Abs(transPath)

\* C10 as stated: walkthroughDir returns every non-directory entry below the
\* root exactly once, whatever the tree, but the entry whose cleaned path is
\* the cleaned description path.
C10_EveryFileBelowRoot ==
  fpc = "walked" =>
    HoldsExactly(files,
      {q \in {WalkPath(dirPath, g) : g \in FilesBelow(dirPath)} : Clean(q) # Clean(tdfPath)})

\* C10 amended: walkthroughDir returns exactly once every non-directory entry
\* that lies below the root under directories that can all be read, at any
\* depth, returns no directory, and omits exactly the entry whose cleaned
\* path is the cleaned description path.
C10_EveryReachableFile ==
  fpc = "walked" =>
    HoldsExactly(files,
      {q \in {WalkPath(dirPath, g) : g \in {h \in FilesBelow(dirPath) : Reachable(dirPath, h)}} :
         Clean(q) # Clean(tdfPath)})

C10_Witness ==
  /\ fpc = "walked"
  /\ tdfPath # Clean(tdfPath)
  /\ \E g \in FilesBelow(dirPath) :
       Reachable(dirPath, g) /\ Clean(WalkPath(dirPath, g)) = Clean(tdfPath)
  /\ \E k \in 1..Len(files) : Len(Abs(files[k]).segs) >= Len(Abs(dirPath).segs) + 2
  /\ Len(files) >= 2

\* C13: when the walk has returned, every subdirectory of the root that it
\* met and could not read has been reported, and every non-directory entry
\* under directories that can all be read is in the list, but the
\* description file.
C13_UnreadableDirReported ==
  fpc = "walked" =>
    /\ \A e \in fs :
         (e[2] = "unreadable" /\ IsBelow(e[1], Abs(dirPath).segs) /\ Reachable(dirPath, e[1]))
           => WalkPath(dirPath, e[1]) \in walkErrs
    /\ \A g \in FilesBelow(dirPath) :
         (Reachable(dirPath, g) /\ Clean(WalkPath(dirPath, g)) # Clean(tdfPath))
           => WalkPath(dirPath, g) \in Range(files)


\* ------------------------------------------- properties of the run's results
\* C11: when processFiles has returned, the count it yielded to fix is the
\* number of files whose content it replaced on disk during the run.
C11_CountIsRewritten ==
  dpc = "returned" => count = <<Cardinality(written)>>

\* What processFile returns for the file of worker w when the files hold
\* what they held at the start of the run and every read succeeds or every
\* read fails.
Outcome(w, readable) ==
  processFileOn(disk0, files[w], transformations,
                [k \in 1..Len(transformations) |-> readable])

\* What the file of worker w holds after the run when processFile returned r
\* and the write, if any, succeeded or failed.
FinalContent(w, r, writable) ==
  IF Changed(r.origDat, r.data) /\ writable THEN r.data ELSE disk0[files[w]]

\* C12: when processFiles has returned after a read or write failure, every
\* worker has run to its end, a write that failed has been reported with the
\* path, and every file without a reported failure has been processed and,
\* if the change test fired, written exactly as in a run without failures.
C12_FailureDoesNotAbort ==
  dpc = "returned" =>
    /\ \A w \in Workers : wpc[w] = "done"
    /\ \A w \in Workers :
         (writeCalls[w] > 0 /\ files[w] \notin written) => files[w] \in writeErrs
    /\ \A w \in Workers :
         files[w] \notin (readErrs \cup writeErrs) =>
           \E r \in {Outcome(w, TRUE)} :
             /\ origDat[w] = r.origDat
             /\ data[w] = r.data
             /\ files[w] \in written <=> Changed(r.origDat, r.data)
             /\ disk[files[w]] = FinalContent(w, r, TRUE)

\* The run has returned; the read and the write of one file failed and
\* another file, without failure, was rewritten.
C12_Witness ==
  /\ dpc = "returned"
  /\ \E w1, w2 \in Workers :
       /\ files[w1] \in readErrs \cap writeErrs
       /\ files[w2] \notin (readErrs \cup writeErrs)
       /\ files[w2] \in written
       /\ disk[files[w2]] # disk0[files[w2]]

\* C14: when processFiles has returned, the paths printed one per line are
\* exactly the paths whose content was replaced on disk; a path whose write
\* failed is not among them.
C14_PrintedAreRewritten ==
  dpc = "returned" => /\ printed = written
                      /\ printed \cap writeErrs = {}

\* C15: for a file all of whose reads succeeded, no transformation whose
\* filter matched and whose precondition did not hold changed the current
\* content: processFile kept what the earlier transformations had produced.
C15_UnappliedKeepsContent ==
  \A w \in Workers : (Returned(w) /\ files[w] \notin readErrs) => kept[w]

\* C16: when processFiles has returned, what every file holds is fixed by
\* what it held at the start, the transformation list and the outcome of its
\* own read and write, whatever the order in which the workers ran; no file
\* holds what another worker produced.
C16_SameUnderEveryInterleaving ==
  dpc = "returned" =>
    \A w \in Workers :
      \E r \in {Outcome(w, files[w] \notin readErrs)} :
        disk[files[w]] = FinalContent(w, r, files[w] \notin writeErrs)

\* Two files were rewritten by two workers, with different contents, and
\* the second worker wrote before the first.
C16_Witness ==
  /\ Len(files) = 2
  /\ files[2] \in written
  /\ wpc[1] = "write"
  /\ data[1] # data[2]
  /\ data[1] # disk0[files[2]]

\* C17: in every state ioutil.WriteFile has been called at most once for
\* every file, and a file holds either what it held at the start or, once
\* its worker is past the write, the buffer processFile returned after the
\* whole transformation list.
C17_WrittenOnceAfterWholeList ==
  \A w \in Workers :
    /\ writeCalls[w] <= 1
    /\ files[w] \in written => PastWrite(w)
    /\ disk[files[w]] = (IF files[w] \in written THEN data[w] ELSE disk0[files[w]])
    /\ Returned(w) => data[w] = Outcome(w, files[w] \notin readErrs).data

\* A file was rewritten under a list of two transformations whose first
\* transformation alone gives a content that is neither the original nor
\* the final one.
C17_Witness ==
  \E w \in Workers :
    /\ files[w] \in written
    /\ Len(transformations) >= 2
    /\ processFileOn(disk0, files[w], SubSeq(transformations, 1, 1), <<TRUE>>).data
         \notin {disk0[files[w]], disk[files[w]]}

\* C18: a file for which a read failed comes out of processFile with an
\* empty original and an empty final content, and ioutil.WriteFile is never
\* called on it.
C18_UnreadNeverWritten ==
  \A w \in Workers :
    files[w] \in readErrs => /\ origDat[w] = Empty
                             /\ data[w] = Empty
                             /\ writeCalls[w] = 0

\* C19: the done channel never holds more than len(files) signals, and a
\* worker that is about to send always finds room in it, whether or not the
\* driver has begun to receive.
C19_DoneWithinCapacity ==
  /\ done <= Len(files)
  /\ \A w \in Workers : wpc[w] = "send" => done < DoneCap

\* Every worker of a list of two files has sent its signal while the driver
\* is still in the spawn loop.
C19_Witness ==
  /\ dpc = "spawn"
  /\ Len(files) >= 2
  /\ \A w \in Workers : wpc[w] = "done"
  /\ done = Len(files)

====
